---- MODULE Spec2Model ----
(***************************************************************************)
(* py-toolkit: venv lifecycle (venv/manager.ts), hash store (venv/hash.ts), *)
(* package-manager resolution (venv/packageManager.ts) and sub-project      *)
(* discovery (discovery/projects.ts), modelled as state machines over an    *)
(* abstract filesystem.                                                     *)
(*                                                                         *)
(* Optional values (`undefined`, a file that does not exist) are sets with  *)
(* at most one element: None is {}, Some(x) is {x}.                         *)
(* A call that throws returns Thrown; one that returns v returns Ret(v).    *)
(***************************************************************************)
EXTENDS Integers, Sequences, FiniteSets, TLC

None == {}
Some(x) == {x}
The(s) == CHOOSE x \in s : TRUE

Thrown == [ok |-> FALSE]
Ret(v) == [ok |-> TRUE, val |-> v]

(***************************************************************************)
(* Bounds of the model.                                                     *)
(***************************************************************************)
\* distinct manifest contents 1..NumContents
NumContents == 2
\* slots for ensure calls that may be in flight
NumCalls == 2

Contents == 1..NumContents
Calls == 1..NumCalls

(***************************************************************************)
(* Text.  A text is a sequence of tokens; String.includes is a search for   *)
(* a contiguous run of tokens.                                              *)
(***************************************************************************)
includes(text, pat) ==
  \E i \in 0..(Len(text) - Len(pat)) :
    \A j \in 1..Len(pat) : text[i + j] = pat[j]

RECURSIVE concat(_)
concat(lines) ==
  IF lines = <<>> THEN <<>> ELSE Head(lines) \o <<"\n">> \o concat(Tail(lines))

TOOL_UV == <<"[", "tool.uv", "]">>
PROJECT == <<"[", "project", "]">>
DEPENDENCIES == <<"dependencies", " = [">>

(***************************************************************************)
(* Hash store (venv/hash.ts).  A digest is two hex digits (0..15); the      *)
(* marker file holds the digest followed by a newline.                      *)
(***************************************************************************)
NL == 16
SP == 17
Whitespace == {NL, SP}

\* crypto md5 of the content, hex: distinct contents of the model have distinct digests
md5hex(content) == <<(content * 11) % 16, (content * 7 + 3) % 16>>

hashFile(file) == IF file = None THEN Thrown ELSE Ret(md5hex(The(file)))

RECURSIVE trimStart(_)
trimStart(s) ==
  IF s # <<>> /\ Head(s) \in Whitespace THEN trimStart(Tail(s)) ELSE s

RECURSIVE trimEnd(_)
trimEnd(s) ==
  IF s # <<>> /\ s[Len(s)] \in Whitespace THEN trimEnd(SubSeq(s, 1, Len(s) - 1)) ELSE s

trim(s) == trimEnd(trimStart(s))

readStoredHash_NoTrim(marker) ==
  IF marker = None THEN None ELSE Some(The(marker))

readStoredHash(marker) ==
  IF marker = None THEN None ELSE Some(trim(The(marker)))

writeHash(hash) == Some(hash \o <<NL>>)

isVenvStale_NoStoredIsFresh(marker, file) ==
  LET stored == readStoredHash(marker) IN
  IF stored = None THEN Ret(FALSE)
  ELSE LET current == hashFile(file) IN
       IF ~current.ok THEN Thrown ELSE Ret(The(stored) # current.val)

isVenvStale(marker, file) ==
  LET stored == readStoredHash(marker) IN
  IF stored = None THEN Ret(TRUE)
  ELSE LET current == hashFile(file) IN
       IF ~current.ok THEN Thrown ELSE Ret(The(stored) # current.val)

\* file names are texts too
REQUIREMENTS_TXT == <<"requirements", ".", "txt">>
REQUIREMENTS_DEV_TXT == <<"requirements", "-dev", ".", "txt">>
REQUIREMENTS_CPU_TXT == <<"requirements", "-cpu", ".", "txt">>
PYPROJECT_TOML == <<"pyproject", ".", "toml">>
MAIN_PY == <<"main", ".", "py">>

candidates == <<REQUIREMENTS_TXT, REQUIREMENTS_DEV_TXT, REQUIREMENTS_CPU_TXT>>

RECURSIVE firstExisting(_, _)
firstExisting(names, present) ==
  IF names = <<>> THEN None
  ELSE IF Head(names) \in present THEN Some(Head(names))
  ELSE firstExisting(Tail(names), present)

\* present: the names of the files that exist directly in the project directory
findRequirementsFile(present) == firstExisting(candidates, present)

(***************************************************************************)
(* Package manager (venv/packageManager.ts).                                *)
(***************************************************************************)
detectPackageManager_ReqFirst(lock, py, present, prefList) ==
  IF REQUIREMENTS_TXT \in present THEN "venv+pip"
  ELSE IF lock THEN "uv"
  ELSE IF py # None /\ includes(The(py), TOOL_UV) THEN "uv"
  ELSE IF py # None /\ includes(The(py), PROJECT) /\ includes(The(py), DEPENDENCIES) THEN "uv"
  ELSE IF Len(prefList) > 0 THEN prefList[1] ELSE "venv+pip"

detectPackageManager(lock, py, present, prefList) ==
  IF lock THEN "uv"
  ELSE IF py # None /\ includes(The(py), TOOL_UV) THEN "uv"
  ELSE IF py # None /\ includes(The(py), PROJECT) /\ includes(The(py), DEPENDENCIES) THEN "uv"
  ELSE IF REQUIREMENTS_TXT \in present THEN "venv+pip"
  ELSE IF Len(prefList) > 0 THEN prefList[1] ELSE "venv+pip"

\* cp.execFileSync('uv', ['--version']): throws when uv cannot be run (uvRuns false)
execFileSync(uvRuns) == IF uvRuns THEN Ret(0) ELSE Thrown

\* try { execFileSync } catch { return false }
isUvAvailable(uvRuns) == execFileSync(uvRuns).ok

resolvePackageManager_NoDowngrade(lock, py, present, prefList, uvRuns) ==
  detectPackageManager(lock, py, present, prefList)

resolvePackageManager(lock, py, present, prefList, uvRuns) ==
  LET detected == detectPackageManager(lock, py, present, prefList) IN
  IF detected = "uv" /\ ~isUvAvailable(uvRuns) THEN "venv+pip" ELSE detected

(***************************************************************************)
(* State.                                                                   *)
(***************************************************************************)
VARIABLES
  \* the project directory
  reqs,        \* manifest name -> optional content
  uvLock,      \* uv.lock exists
  pyproject,   \* optional text of pyproject.toml
  prefs,       \* setting python.preferredManagers
  uvOnPath,    \* the uv binary runs on this host
  \* <project>/.venv
  venvDir,     \* the directory exists
  venvPython,  \* bin/python exists in it
  marker,      \* optional content of .requirements-hash
  hashed,      \* history: the manifest content whose digest the marker was written from
  \* ensure calls (createOrUpdateVenv), one record per slot
  overlap,     \* the host lets calls overlap
  \* the workspace scanned by discoverSubprojects
  dirs,        \* directory path -> [files, perm]
  patterns,    \* setting projects.excludePatterns
  phase,       \* "building" until discoverSubprojects or findVenvForFile has run
  results,     \* what discoverSubprojects returned
  \* the package manager detectPackageManager returned last
  lastDetected,
  \* lookups made so far
  resolved,    \* resolvePackageManager: one record per call, oldest first
  located,     \* the last findVenvForFile call: its arguments and its outcome
  owned,       \* the last getProjectForFile call: its arguments and its outcome
  watch,       \* the requirements watcher: events handled, notifications open,
               \* createVenv commands run from a notification
  pc, force, override, manager, reqFile, exists, result, failedAt,
  cmds,        \* external commands the call has spawned so far
  consumed     \* the manifest content the call's install command was started on

fsVars == <<reqs, uvLock, pyproject, prefs, uvOnPath, venvDir, venvPython, marker, hashed>>
lookupVars == <<resolved, located, owned, watch>>
hostVars == <<overlap, dirs, patterns, phase, results, lastDetected, lookupVars>>
callVars ==
  <<hostVars, pc, force, override, manager, reqFile, exists, result, failedAt, cmds, consumed>>
vars == <<fsVars, callVars>>

ManifestNames == {REQUIREMENTS_TXT, REQUIREMENTS_DEV_TXT}
Present == {m \in DOMAIN reqs : reqs[m] # None}

UvText == concat(<<TOOL_UV>>)
PlainText == concat(<<<<"[", "tool.black", "]">>>>)
DefaultPrefs == <<"uv", "venv+pip">>

NoResult == [created |-> FALSE, updated |-> FALSE, returned |-> FALSE]
Result(c, u) == [created |-> c, updated |-> u, returned |-> TRUE]

TypeOK ==
  /\ reqs \in [ManifestNames -> {None} \cup {Some(k) : k \in Contents}]
  /\ uvLock \in BOOLEAN /\ uvOnPath \in BOOLEAN
  /\ venvDir \in BOOLEAN /\ venvPython \in BOOLEAN
  /\ (venvPython \/ marker # None) => venvDir
  /\ pc \in [Calls -> {"idle", "creating", "installing", "syncing", "done", "failed"}]

\* the workspace root is the directory with the empty path
Root == <<>>
EmptyDir == [files |-> {}, perm |-> "rx"]

\* projects.excludePatterns as configured by default (config.ts)
excludePatterns ==
  << <<"*", ".", "venv">>, <<"__pycache__">>, <<".", "pytest_cache">>,
     <<".", "mypy_cache">>, <<".", "ruff_cache">>, <<"node_modules">> >>

\* nothing scanned, nothing detected yet
InitHost ==
  /\ dirs = (Root :> EmptyDir)
  /\ patterns = excludePatterns
  /\ phase = "building"
  /\ results = <<>>
  /\ lastDetected = None
  /\ resolved = <<>>
  /\ located = None
  /\ owned = None
  /\ watch = [events |-> 0, open |-> 0, triggered |-> 0]

InitFs ==
  /\ reqs \in [ManifestNames -> {None} \cup {Some(k) : k \in Contents}]
  /\ uvLock \in BOOLEAN
  /\ pyproject \in {None, Some(UvText), Some(PlainText)}
  /\ prefs \in {<<>>, DefaultPrefs}
  /\ uvOnPath \in BOOLEAN
  /\ venvDir \in BOOLEAN
  /\ venvPython \in (IF venvDir THEN BOOLEAN ELSE {FALSE})
  /\ hashed \in (IF venvDir THEN {None} \cup {Some(k) : k \in Contents} ELSE {None})
  /\ marker = (IF hashed = None THEN None ELSE writeHash(md5hex(The(hashed))))

InitCalls ==
  /\ pc = [c \in Calls |-> "idle"]
  /\ force = [c \in Calls |-> FALSE]
  /\ override = [c \in Calls |-> None]
  /\ manager = [c \in Calls |-> "venv+pip"]
  /\ reqFile = [c \in Calls |-> None]
  /\ exists = [c \in Calls |-> FALSE]
  /\ result = [c \in Calls |-> NoResult]
  /\ failedAt = [c \in Calls |-> "none"]
  /\ cmds = [c \in Calls |-> {}]
  /\ consumed = [c \in Calls |-> None]

Init == InitFs /\ InitCalls /\ InitHost /\ overlap = FALSE

(***************************************************************************)
(* createOrUpdateVenv (venv/manager.ts).  The function runs without         *)
(* interruption up to its first await; each awaited command ends in a       *)
(* separate step.                                                           *)
(***************************************************************************)
isVenvValid == venvPython

\* the manifest a call with this override works on (manager.ts line 30)
resolveReqFile(o) == IF o # None THEN o ELSE findRequirementsFile(Present)

fileOf(rf) == IF rf = None THEN None ELSE reqs[The(rf)]

\* the condition of line 36, evaluated left to right: "noop", "act" or "throw"
upToDate(f, rf) ==
  IF ~isVenvValid \/ f \/ rf = None THEN "act"
  ELSE LET stale == isVenvStale(marker, fileOf(rf)) IN
       IF ~stale.ok THEN "throw" ELSE IF stale.val THEN "act" ELSE "noop"

\* lines 54..73 without the uv sync branch of lines 69..73
Proceed_NeverSyncs(c, mgr, rf, ex, spawned) ==
  IF rf # None
  THEN /\ pc' = [pc EXCEPT ![c] = "installing"]
       /\ cmds' = [cmds EXCEPT ![c] = spawned \cup {"install"}]
       /\ consumed' = [consumed EXCEPT ![c] = fileOf(rf)]
       /\ result' = result
  ELSE /\ pc' = [pc EXCEPT ![c] = "done"]
       /\ cmds' = [cmds EXCEPT ![c] = spawned]
       /\ consumed' = consumed
       /\ result' = [result EXCEPT ![c] = Result(~ex, ex)]

\* lines 54..73 after the venv is there: start the install, the sync, or finish
Proceed(c, mgr, rf, ex, spawned) ==
  IF rf # None
  THEN /\ pc' = [pc EXCEPT ![c] = "installing"]
       /\ cmds' = [cmds EXCEPT ![c] = spawned \cup {"install"}]
       /\ consumed' = [consumed EXCEPT ![c] = fileOf(rf)]
       /\ result' = result
  ELSE IF mgr = "uv" /\ pyproject # None
  THEN /\ pc' = [pc EXCEPT ![c] = "syncing"]
       /\ cmds' = [cmds EXCEPT ![c] = spawned \cup {"sync"}]
       /\ consumed' = consumed
       /\ result' = result
  ELSE /\ pc' = [pc EXCEPT ![c] = "done"]
       /\ cmds' = [cmds EXCEPT ![c] = spawned]
       /\ consumed' = consumed
       /\ result' = [result EXCEPT ![c] = Result(~ex, ex)]

StartCreate_NoAwait(c, mgr, rf, ex, spawned) ==
  /\ Proceed(c, mgr, rf, ex, spawned \cup {"create"})
  /\ failedAt' = failedAt

\* line 47 or 49: the venv-creation command is spawned and awaited
StartCreate(c, mgr, rf, ex, spawned) ==
  /\ pc' = [pc EXCEPT ![c] = "creating"]
  /\ cmds' = [cmds EXCEPT ![c] = spawned \cup {"create"}]
  /\ UNCHANGED <<result, failedAt, consumed>>

\* lines 28..51: the call runs up to its first await (or returns, or throws)
createOrUpdateVenv(c, f, o) ==
  LET detected == detectPackageManager(uvLock, pyproject, Present, prefs)
      mgr == resolvePackageManager(uvLock, pyproject, Present, prefs, uvOnPath)
      probe == IF detected = "uv" THEN {"probe"} ELSE {}
      rf == resolveReqFile(o)
      ex == isVenvValid
      todo == upToDate(f, rf)
  IN /\ force' = [force EXCEPT ![c] = f]
     /\ override' = [override EXCEPT ![c] = o]
     /\ manager' = [manager EXCEPT ![c] = mgr]
     /\ reqFile' = [reqFile EXCEPT ![c] = rf]
     /\ exists' = [exists EXCEPT ![c] = ex]
     /\ IF todo = "throw"
        THEN /\ pc' = [pc EXCEPT ![c] = "failed"]
             /\ failedAt' = [failedAt EXCEPT ![c] = "stale-check"]
             /\ cmds' = [cmds EXCEPT ![c] = probe]
             /\ UNCHANGED <<result, consumed>>
        ELSE IF todo = "noop"
        THEN /\ pc' = [pc EXCEPT ![c] = "done"]
             /\ result' = [result EXCEPT ![c] = Result(FALSE, FALSE)]
             /\ cmds' = [cmds EXCEPT ![c] = probe]
             /\ UNCHANGED <<failedAt, consumed>>
        ELSE IF ~ex
        THEN StartCreate(c, mgr, rf, ex, probe)
        ELSE /\ Proceed(c, mgr, rf, ex, probe)
             /\ failedAt' = failedAt

EnsureStart_Serialized(c) ==
  /\ pc[c] = "idle"
  /\ \A d \in Calls : pc[d] = "idle"
  /\ \E f \in BOOLEAN, o \in {None} \cup {Some(m) : m \in ManifestNames} :
       createOrUpdateVenv(c, f, o)
  /\ UNCHANGED <<fsVars, hostVars>>

\* a caller (the createVenv command) invokes createOrUpdateVenv in the lowest
\* free slot; nothing in the code makes it wait for a call in flight
EnsureStart(c) ==
  /\ pc[c] = "idle"
  /\ \A d \in Calls : d < c => pc[d] # "idle"
  /\ overlap \/ \A d \in Calls : pc[d] = "idle"
  /\ \E f \in BOOLEAN, o \in {None} \cup {Some(m) : m \in ManifestNames} :
       createOrUpdateVenv(c, f, o)
  /\ UNCHANGED <<fsVars, hostVars>>

CreateOk_WritesHash(c) ==
  /\ pc[c] = "creating"
  /\ venvDir' = TRUE
  /\ venvPython' = TRUE
  /\ marker' = (IF fileOf(reqFile[c]) # None
                THEN writeHash(hashFile(fileOf(reqFile[c])).val) ELSE marker)
  /\ hashed' = (IF fileOf(reqFile[c]) # None THEN fileOf(reqFile[c]) ELSE hashed)
  /\ Proceed(c, manager[c], reqFile[c], exists[c], cmds[c])
  /\ UNCHANGED <<reqs, uvLock, pyproject, prefs, uvOnPath>>
  /\ UNCHANGED <<hostVars, force, override, manager, reqFile, exists, failedAt>>

\* the venv-creation command exits with status 0: lines 53..76 follow
CreateOk(c) ==
  /\ pc[c] = "creating"
  /\ venvDir' = TRUE
  /\ venvPython' = TRUE
  /\ Proceed(c, manager[c], reqFile[c], exists[c], cmds[c])
  /\ UNCHANGED <<reqs, uvLock, pyproject, prefs, uvOnPath, marker, hashed>>
  /\ UNCHANGED <<hostVars, force, override, manager, reqFile, exists, failedAt>>

\* a command exits with a non-zero status or cannot be spawned: runCommand rejects
Reject(c, step) ==
  /\ pc' = [pc EXCEPT ![c] = "failed"]
  /\ failedAt' = [failedAt EXCEPT ![c] = step]
  /\ UNCHANGED <<hostVars, force, override, manager, reqFile, exists, result, cmds, consumed>>

CreateFail_Continues(c) ==
  /\ pc[c] = "creating"
  /\ venvDir' \in {venvDir, TRUE}
  /\ Proceed(c, manager[c], reqFile[c], exists[c], cmds[c])
  /\ UNCHANGED <<reqs, uvLock, pyproject, prefs, uvOnPath, venvPython, marker, hashed>>
  /\ UNCHANGED <<hostVars, force, override, manager, reqFile, exists, failedAt>>

CreateFail(c) ==
  /\ pc[c] = "creating"
  /\ venvDir' \in {venvDir, TRUE}
  /\ Reject(c, "create")
  /\ UNCHANGED <<reqs, uvLock, pyproject, prefs, uvOnPath, venvPython, marker, hashed>>

InstallFail_WritesHash(c) ==
  /\ pc[c] = "installing"
  /\ marker' = (IF fileOf(reqFile[c]) # None /\ venvDir
                THEN writeHash(hashFile(fileOf(reqFile[c])).val) ELSE marker)
  /\ hashed' = (IF fileOf(reqFile[c]) # None /\ venvDir THEN fileOf(reqFile[c]) ELSE hashed)
  /\ Reject(c, "install")
  /\ UNCHANGED <<reqs, uvLock, pyproject, prefs, uvOnPath, venvDir, venvPython>>

InstallFail(c) ==
  /\ pc[c] = "installing"
  /\ Reject(c, "install")
  /\ UNCHANGED fsVars

InstallOk_SwappedFlags(c) ==
  /\ pc[c] = "installing"
  /\ LET hash == hashFile(fileOf(reqFile[c])) IN
     IF ~hash.ok \/ ~venvDir
     THEN /\ Reject(c, "hash")
          /\ UNCHANGED fsVars
     ELSE /\ marker' = writeHash(hash.val)
          /\ hashed' = fileOf(reqFile[c])
          /\ pc' = [pc EXCEPT ![c] = "done"]
          /\ result' = [result EXCEPT ![c] = Result(exists[c], ~exists[c])]
          /\ UNCHANGED <<reqs, uvLock, pyproject, prefs, uvOnPath, venvDir, venvPython>>
          /\ UNCHANGED <<hostVars, force, override, manager, reqFile, exists, failedAt, cmds, consumed>>

\* the install command exits with status 0: lines 66..76
InstallOk(c) ==
  /\ pc[c] = "installing"
  /\ LET hash == hashFile(fileOf(reqFile[c])) IN
     IF ~hash.ok \/ ~venvDir
     THEN /\ Reject(c, "hash")
          /\ UNCHANGED fsVars
     ELSE /\ marker' = writeHash(hash.val)
          /\ hashed' = fileOf(reqFile[c])
          /\ pc' = [pc EXCEPT ![c] = "done"]
          /\ result' = [result EXCEPT ![c] = Result(~exists[c], exists[c])]
          /\ UNCHANGED <<reqs, uvLock, pyproject, prefs, uvOnPath, venvDir, venvPython>>
          /\ UNCHANGED <<hostVars, force, override, manager, reqFile, exists, failedAt, cmds, consumed>>

SyncOk_ReportsCreated(c) ==
  /\ pc[c] = "syncing"
  /\ pc' = [pc EXCEPT ![c] = "done"]
  /\ result' = [result EXCEPT ![c] = Result(TRUE, exists[c])]
  /\ UNCHANGED fsVars
  /\ UNCHANGED <<hostVars, force, override, manager, reqFile, exists, failedAt, cmds, consumed>>

SyncOk(c) ==
  /\ pc[c] = "syncing"
  /\ pc' = [pc EXCEPT ![c] = "done"]
  /\ result' = [result EXCEPT ![c] = Result(~exists[c], exists[c])]
  /\ UNCHANGED fsVars
  /\ UNCHANGED <<hostVars, force, override, manager, reqFile, exists, failedAt, cmds, consumed>>

SyncFail(c) ==
  /\ pc[c] = "syncing"
  /\ Reject(c, "sync")
  /\ UNCHANGED fsVars

\* the caller has handled the result or the error: the slot is free again
Return(c) ==
  /\ pc[c] \in {"done", "failed"}
  /\ pc' = [pc EXCEPT ![c] = "idle"]
  /\ force' = [force EXCEPT ![c] = FALSE]
  /\ override' = [override EXCEPT ![c] = None]
  /\ manager' = [manager EXCEPT ![c] = "venv+pip"]
  /\ reqFile' = [reqFile EXCEPT ![c] = None]
  /\ exists' = [exists EXCEPT ![c] = FALSE]
  /\ result' = [result EXCEPT ![c] = NoResult]
  /\ failedAt' = [failedAt EXCEPT ![c] = "none"]
  /\ cmds' = [cmds EXCEPT ![c] = {}]
  /\ consumed' = [consumed EXCEPT ![c] = None]
  /\ UNCHANGED <<fsVars, hostVars>>

(***************************************************************************)
(* The environment: the user edits manifests, deletes the venv, installs    *)
(* or removes uv.                                                           *)
(***************************************************************************)
WriteManifest(m, k) ==
  /\ reqs[m] # Some(k)
  /\ reqs' = [reqs EXCEPT ![m] = Some(k)]
  /\ UNCHANGED <<uvLock, pyproject, prefs, uvOnPath, venvDir, venvPython, marker, hashed, callVars>>

RemoveManifest(m) ==
  /\ reqs[m] # None
  /\ reqs' = [reqs EXCEPT ![m] = None]
  /\ UNCHANGED <<uvLock, pyproject, prefs, uvOnPath, venvDir, venvPython, marker, hashed, callVars>>

deleteVenv ==
  /\ venvDir
  /\ venvDir' = FALSE /\ venvPython' = FALSE /\ marker' = None /\ hashed' = None
  /\ UNCHANGED <<reqs, uvLock, pyproject, prefs, uvOnPath, callVars>>

UvAvailabilityChanges ==
  /\ uvOnPath' = ~uvOnPath
  /\ UNCHANGED <<reqs, uvLock, pyproject, prefs, venvDir, venvPython, marker, hashed, callVars>>

Next ==
  \/ \E c \in Calls : EnsureStart(c)
  \/ \E c \in Calls : CreateOk(c)
  \/ \E c \in Calls : CreateFail(c)
  \/ \E c \in Calls : InstallOk(c)
  \/ \E c \in Calls : InstallFail(c)
  \/ \E c \in Calls : SyncOk(c)
  \/ \E c \in Calls : SyncFail(c)
  \/ \E c \in Calls : Return(c)
  \/ \E m \in ManifestNames, k \in Contents : WriteManifest(m, k)
  \/ \E m \in ManifestNames : RemoveManifest(m)
  \/ deleteVenv
  \/ UvAvailabilityChanges

Spec == Init /\ [][Next]_vars

(***************************************************************************)
(* Overlapping calls: the createVenv command is invoked again (from the      *)
(* tree view, or from the watcher's Update button) while a call is waiting  *)
(* for a command.  One project, its files left alone meanwhile.             *)
(***************************************************************************)
InitConc ==
  /\ reqs \in {[m \in ManifestNames |-> None],
               [m \in ManifestNames |-> IF m = REQUIREMENTS_TXT THEN Some(1) ELSE None]}
  /\ uvLock = FALSE
  /\ pyproject \in {None, Some(UvText)}
  /\ prefs = DefaultPrefs
  /\ uvOnPath \in BOOLEAN
  /\ venvDir \in BOOLEAN
  /\ venvPython = venvDir
  /\ hashed \in (IF venvDir THEN {None, Some(1), Some(2)} ELSE {None})
  /\ marker = (IF hashed = None THEN None ELSE writeHash(md5hex(The(hashed))))
  /\ InitCalls /\ InitHost /\ overlap = TRUE

NextConc ==
  \/ \E c \in Calls : EnsureStart(c)
  \/ \E c \in Calls : CreateOk(c)
  \/ \E c \in Calls : CreateFail(c)
  \/ \E c \in Calls : InstallOk(c)
  \/ \E c \in Calls : InstallFail(c)
  \/ \E c \in Calls : SyncOk(c)
  \/ \E c \in Calls : SyncFail(c)
  \/ \E c \in Calls : Return(c)

SpecConc == InitConc /\ [][NextConc]_vars

(***************************************************************************)
(* Sub-project discovery (discovery/projects.ts).  A directory is a path:   *)
(* the sequence of the names from the workspace root down to it.  perm is   *)
(* "rx" (readable), "x" (entries can be reached but not listed: readdirSync *)
(* throws) or "none" (nothing below it can be reached).                     *)
(***************************************************************************)
\* bounds: directories, files and permission changes in a workspace; nesting depth
MaxEntries == 4
MaxDepth == 3

A == <<"a">>
B == <<"b">>
HIDDEN == <<".", "hidden">>
TOOLS == <<"tools">>
A_VENV == <<"a", ".", "venv">>
DirNames == {A, B, HIDDEN, TOOLS, A_VENV}
FileNames == {REQUIREMENTS_TXT, REQUIREMENTS_DEV_TXT, PYPROJECT_TOML, MAIN_PY}

ALWAYS_SKIP ==
  { <<"tools">>, <<"out">>, <<"__pycache__">>, <<"node_modules">>, <<".", "venv">>,
    <<"venv">>, <<".", "git">>, <<".", "github">>, <<".", "vscode">>,
    <<".", "devcontainer">> }

startsWith(text, pat) ==
  Len(pat) <= Len(text) /\ SubSeq(text, 1, Len(pat)) = pat

endsWith(text, pat) ==
  Len(pat) <= Len(text) /\ SubSeq(text, Len(text) - Len(pat) + 1, Len(text)) = pat

\* p.replace(/\*/g, '')
RECURSIVE stripStars(_)
stripStars(p) ==
  IF p = <<>> THEN <<>>
  ELSE IF Head(p) = "*" THEN stripStars(Tail(p))
  ELSE <<Head(p)>> \o stripStars(Tail(p))

\* projects.excludePatterns as the user may set it: the default list or none
PatternLists == {excludePatterns, <<>>}

shouldSkip_ExactPattern(name) ==
  \/ startsWith(name, <<".">>)
  \/ name \in ALWAYS_SKIP
  \/ \E i \in 1..Len(patterns) : name = stripStars(patterns[i])

shouldSkip(name) ==
  \/ startsWith(name, <<".">>)
  \/ name \in ALWAYS_SKIP
  \/ \E i \in 1..Len(patterns) : includes(name, stripStars(patterns[i]))

parentOf(q) == SubSeq(q, 1, Len(q) - 1)
children(p) == {q \in DOMAIN dirs : Len(q) = Len(p) + 1 /\ parentOf(q) = p}

\* fs.existsSync(path.join(d, f)) and fs.readdirSync(d)
existsSync(d, f) == dirs[d].perm # "none" /\ f \in dirs[d].files
readdirSync(d) ==
  IF d \in DOMAIN dirs /\ dirs[d].perm = "rx" THEN Ret(dirs[d].files) ELSE Thrown

isProjectDir_AlwaysChecksPy(d) ==
  LET manifests ==
        (IF existsSync(d, REQUIREMENTS_TXT) THEN <<"requirements.txt">> ELSE <<>>)
        \o (IF existsSync(d, PYPROJECT_TOML) THEN <<"pyproject.toml">> ELSE <<>>)
      entries == readdirSync(d)
  IN IF entries.ok /\ \E e \in entries.val : endsWith(e, <<".", "py">>)
     THEN manifests \o <<"py-files">> ELSE manifests

isProjectDir(d) ==
  LET manifests ==
        (IF existsSync(d, REQUIREMENTS_TXT) THEN <<"requirements.txt">> ELSE <<>>)
        \o (IF existsSync(d, PYPROJECT_TOML) THEN <<"pyproject.toml">> ELSE <<>>)
      entries == readdirSync(d)
  IN IF manifests # <<>> THEN manifests
     ELSE IF entries.ok /\ \E e \in entries.val : endsWith(e, <<".", "py">>)
     THEN <<"py-files">> ELSE <<>>

\* `${relativePath}/${entry.name}`
RECURSIVE relName(_)
relName(q) ==
  IF Len(q) = 1 THEN q[1] ELSE relName(parentOf(q)) \o <<"/">> \o q[Len(q)]

SubProject(q, m) == [name |-> relName(q), absolutePath |-> q, markers |-> m]

RECURSIVE scan_DescendsIntoProjects(_)
scan_DescendsIntoProjects(base) ==
  IF ~readdirSync(base).ok THEN {}
  ELSE UNION { IF shouldSkip(q[Len(q)]) THEN {}
               ELSE (IF isProjectDir(q) # <<>> THEN {SubProject(q, isProjectDir(q))} ELSE {})
                    \cup scan_DescendsIntoProjects(q)
               : q \in children(base) }

\* the sub-projects scan(base, ...) pushes to results
RECURSIVE scan(_)
scan(base) ==
  IF ~readdirSync(base).ok THEN {}
  ELSE UNION { IF shouldSkip(q[Len(q)]) THEN {}
               ELSE IF isProjectDir(q) # <<>> THEN {SubProject(q, isProjectDir(q))}
               ELSE scan(q)
               : q \in children(base) }

\* texts compared token by token, the tokens in the given order
rank(order, t) == CHOOSE i \in 1..Len(order) : order[i] = t

RECURSIVE lessBy(_, _, _)
lessBy(order, x, y) ==
  IF x = <<>> THEN y # <<>>
  ELSE IF y = <<>> THEN FALSE
  ELSE IF Head(x) = Head(y) THEN lessBy(order, Tail(x), Tail(y))
  ELSE rank(order, Head(x)) < rank(order, Head(y))

\* String.localeCompare on sub-project names: punctuation sorts before letters
Collation == <<"-", ".", "/", "a", "b", "hidden", "venv">>
localeCompareLess(x, y) == lessBy(Collation, x, y)

RECURSIVE sortByName_Descending(_)
sortByName_Descending(S) ==
  IF S = {} THEN <<>>
  ELSE LET first == CHOOSE r \in S :
                      \A o \in S \ {r} : ~localeCompareLess(r.name, o.name)
       IN <<first>> \o sortByName_Descending(S \ {first})

RECURSIVE sortByName(_)
sortByName(S) ==
  IF S = {} THEN <<>>
  ELSE LET first == CHOOSE r \in S :
                      \A o \in S \ {r} : ~localeCompareLess(o.name, r.name)
       IN <<first>> \o sortByName(S \ {first})

discoverSubprojects_ChecksRoot ==
  sortByName(scan(Root)
             \cup (IF isProjectDir(Root) # <<>>
                   THEN {[name |-> <<>>, absolutePath |-> Root, markers |-> isProjectDir(Root)]}
                   ELSE {}))

discoverSubprojects == sortByName(scan(Root))

\* Array.prototype.sort without a comparator: by UTF-16 code units
CodeUnits ==
  <<"-cpu", "-dev", ".", "main", "py", "pyproject", "requirements", "toml", "txt">>

RECURSIVE sortDefault(_)
sortDefault(S) ==
  IF S = {} THEN <<>>
  ELSE LET first == CHOOSE f \in S : \A o \in S \ {f} : ~lessBy(CodeUnits, o, f)
       IN <<first>> \o sortDefault(S \ {first})

\* every file matching /^requirements.*\.txt$/ directly in d, sorted; [] when
\* the directory cannot be read
findAllRequirementsFiles(d) ==
  LET entries == readdirSync(d) IN
  IF ~entries.ok THEN <<>>
  ELSE sortDefault({f \in entries.val :
                      /\ startsWith(f, <<"requirements">>)
                      /\ endsWith(f, <<".", "txt">>)
                      /\ Len(f) >= Len(<<"requirements">>) + Len(<<".", "txt">>)})

RECURSIVE sumOver(_, _)
sumOver(S, f) ==
  IF S = {} THEN 0
  ELSE LET x == CHOOSE y \in S : TRUE IN f[x] + sumOver(S \ {x}, f)

\* directories below the root, files, and directories with restricted permissions
Entries ==
  (Cardinality(DOMAIN dirs) - 1)
  + sumOver(DOMAIN dirs, [d \in DOMAIN dirs |-> Cardinality(dirs[d].files)])
  + Cardinality({d \in DOMAIN dirs : dirs[d].perm # "rx"})

lifeVars == <<fsVars, overlap, pc, force, override, manager, reqFile, exists, result,
              failedAt, cmds, consumed>>

\* the workspace before the scan: nothing but the root, any of the configured patterns
InitWorkspace ==
  /\ reqs = [m \in ManifestNames |-> None]
  /\ uvLock = FALSE /\ pyproject = None /\ prefs = DefaultPrefs /\ uvOnPath = FALSE
  /\ venvDir = FALSE /\ venvPython = FALSE /\ marker = None /\ hashed = None
  /\ InitCalls /\ InitHost /\ overlap = FALSE

Mkdir(p, n) ==
  /\ phase = "building"
  /\ Entries < MaxEntries
  /\ Len(p) < MaxDepth
  /\ p \o <<n>> \notin DOMAIN dirs
  /\ dirs' = (p \o <<n>> :> EmptyDir) @@ dirs
  /\ UNCHANGED <<lifeVars, patterns, phase, results, lastDetected, lookupVars>>

WriteFile(p, f) ==
  /\ phase = "building"
  /\ Entries < MaxEntries
  /\ f \notin dirs[p].files
  /\ dirs' = [dirs EXCEPT ![p].files = @ \cup {f}]
  /\ UNCHANGED <<lifeVars, patterns, phase, results, lastDetected, lookupVars>>

Chmod(p, mode) ==
  /\ phase = "building"
  /\ Entries < MaxEntries
  /\ dirs[p].perm = "rx"
  /\ dirs' = [dirs EXCEPT ![p].perm = mode]
  /\ UNCHANGED <<lifeVars, patterns, phase, results, lastDetected, lookupVars>>

\* the user edits the setting projects.excludePatterns
ConfigurePatterns(ps) ==
  /\ phase = "building"
  /\ ps # patterns
  /\ patterns' = ps
  /\ UNCHANGED <<lifeVars, dirs, phase, results, lastDetected, lookupVars>>

Discover ==
  /\ phase = "building"
  /\ results' = discoverSubprojects
  /\ phase' = "discovered"
  /\ UNCHANGED <<lifeVars, dirs, patterns, lastDetected, lookupVars>>

NextDiscover ==
  \/ \E p \in DOMAIN dirs, n \in DirNames : Mkdir(p, n)
  \/ \E p \in DOMAIN dirs, f \in FileNames : WriteFile(p, f)
  \/ \E p \in DOMAIN dirs, mode \in {"x", "none"} : Chmod(p, mode)
  \/ \E ps \in PatternLists : ConfigurePatterns(ps)
  \/ Discover

SpecDiscover == InitWorkspace /\ [][NextDiscover]_vars

(***************************************************************************)
(* detectPackageManager on its own: a project directory with any            *)
(* pyproject.toml of up to MaxLines lines, any preference list.             *)
(***************************************************************************)
MaxLines == 3

TomlLines ==
  { TOOL_UV, PROJECT, DEPENDENCIES, <<"dev-">> \o DEPENDENCIES,
    <<"[", "tool.black", "]">>, <<"name", " = ", "foo">> }

RECURSIVE seqsUpTo(_, _)
seqsUpTo(S, n) ==
  IF n = 0 THEN {<<>>}
  ELSE seqsUpTo(S, n - 1) \cup {<<x>> \o t : x \in S, t \in seqsUpTo(S, n - 1)}

TomlTexts == {concat(ls) : ls \in seqsUpTo(TomlLines, MaxLines)}
PrefLists == seqsUpTo({"uv", "venv+pip", "poetry"}, Len(DefaultPrefs))

InitDetect ==
  /\ reqs \in [ManifestNames -> {None, Some(1)}]
  /\ uvLock \in BOOLEAN
  /\ pyproject \in {None} \cup {Some(t) : t \in TomlTexts}
  /\ prefs \in PrefLists
  /\ uvOnPath = FALSE
  /\ venvDir = FALSE /\ venvPython = FALSE /\ marker = None /\ hashed = None
  /\ InitCalls /\ InitHost /\ overlap = FALSE

Detect ==
  /\ lastDetected = None
  /\ lastDetected' = Some(detectPackageManager(uvLock, pyproject, Present, prefs))
  /\ UNCHANGED <<lifeVars, dirs, patterns, phase, results, lookupVars>>

NextDetect == Detect

SpecDetect == InitDetect /\ [][NextDetect]_vars

(***************************************************************************)
(* resolvePackageManager on its own: calls made one after the other while   *)
(* uv comes and goes on the host.                                           *)
(***************************************************************************)
MaxResolves == 3

InitResolve ==
  /\ reqs \in [ManifestNames -> {None, Some(1)}]
  /\ uvLock \in BOOLEAN
  /\ pyproject \in {None, Some(UvText), Some(PlainText)}
  /\ prefs \in PrefLists
  /\ uvOnPath \in BOOLEAN
  /\ venvDir = FALSE /\ venvPython = FALSE /\ marker = None /\ hashed = None
  /\ InitCalls /\ InitHost /\ overlap = FALSE

\* one call; the record keeps what the host was like when it was made
Resolve ==
  /\ Len(resolved) < MaxResolves
  /\ resolved' = Append(resolved,
        [available |-> uvOnPath,
         detected |-> detectPackageManager(uvLock, pyproject, Present, prefs),
         manager |-> resolvePackageManager(uvLock, pyproject, Present, prefs, uvOnPath)])
  /\ UNCHANGED <<lifeVars, dirs, patterns, phase, results, lastDetected, located, owned, watch>>

NextResolve ==
  \/ Resolve
  \/ UvAvailabilityChanges

SpecResolve == InitResolve /\ [][NextResolve]_vars

(***************************************************************************)
(* The venv locator (discovery/venv.ts).  Here the paths of dirs are         *)
(* absolute: Root is "/", and the workspace root is any directory.  A path  *)
(* is compared as the code compares it, as a string: its names joined by    *)
(* "/".  The directory names are mcp and mcp2, the second a token longer.   *)
(***************************************************************************)
MCP == <<"mcp">>
MCP2 == <<"mcp", "2">>
VENV == <<".", "venv">>
LocDirNames == {MCP, MCP2, VENV}
LocFileNames == {MAIN_PY, VENV}

\* the string of an absolute path
RECURSIVE joined(_)
joined(q) == IF q = <<>> THEN <<>> ELSE joined(parentOf(q)) \o <<"/">> \o q[Len(q)]

fsPath(q) == IF q = <<>> THEN <<"/">> ELSE joined(q)

\* path.dirname
dirname(q) == IF q = <<>> THEN <<>> ELSE parentOf(q)

\* fs.statSync(q): "dir", "file", or ENOENT thrown
statSync(q) ==
  IF q \in DOMAIN dirs THEN Ret("dir")
  ELSE IF q # <<>> /\ parentOf(q) \in DOMAIN dirs /\ q[Len(q)] \in dirs[parentOf(q)].files
  THEN Ret("file")
  ELSE Thrown

\* the loop of lines 12..19
RECURSIVE walkUp_AnyVenvEntry(_, _)
walkUp_AnyVenvEntry(current, root) ==
  IF ~startsWith(fsPath(current), fsPath(root)) THEN None
  ELSE IF statSync(current \o <<VENV>>).ok THEN Some(current \o <<VENV>>)
  ELSE IF current = root THEN None
  ELSE walkUp_AnyVenvEntry(dirname(current), root)

RECURSIVE walkUp(_, _)
walkUp(current, root) ==
  IF ~startsWith(fsPath(current), fsPath(root)) THEN None
  ELSE IF statSync(current \o <<VENV>>) = Ret("dir") THEN Some(current \o <<VENV>>)
  ELSE IF current = root THEN None
  ELSE walkUp(dirname(current), root)

\* workspaceRoot is absolute and normalised (a workspace folder's fsPath), so
\* path.resolve leaves it as it is
findVenvForFile(filePath, workspaceRoot) ==
  LET st == statSync(filePath) IN
  IF ~st.ok THEN Thrown
  ELSE Ret(walkUp(IF st.val = "dir" THEN filePath ELSE dirname(filePath), workspaceRoot))

\* the paths a caller may ask about: directories, files, and paths that do not exist
QueryPaths ==
  DOMAIN dirs \cup {q \o <<n>> : q \in DOMAIN dirs, n \in LocDirNames \cup LocFileNames}

WorkspaceRoots == {q \in DOMAIN dirs : q = <<>> \/ q[Len(q)] # VENV}

\* a project with or without a manifest, a venv with or without a stored hash
InitLocate ==
  /\ reqs \in {[m \in ManifestNames |-> None],
               [m \in ManifestNames |-> IF m = REQUIREMENTS_TXT THEN Some(1) ELSE None]}
  /\ uvLock = FALSE /\ pyproject = None /\ prefs = DefaultPrefs /\ uvOnPath = FALSE
  /\ venvDir = TRUE /\ venvPython = TRUE
  /\ hashed \in {None, Some(1)}
  /\ marker = (IF hashed = None THEN None ELSE writeHash(md5hex(The(hashed))))
  /\ InitCalls /\ InitHost /\ overlap = FALSE

FindVenv ==
  /\ phase = "building"
  /\ \E filePath \in QueryPaths, workspaceRoot \in WorkspaceRoots :
       located' = Some([filePath |-> filePath, workspaceRoot |-> workspaceRoot,
                        result |-> findVenvForFile(filePath, workspaceRoot)])
  /\ phase' = "located"
  /\ UNCHANGED <<lifeVars, dirs, patterns, results, lastDetected, resolved, owned, watch>>

\* a name is that of a directory or of a file, not of both
mkdirSync(q, n) == n \notin dirs[q].files /\ Mkdir(q, n)
writeFileSync(q, f) == q \o <<f>> \notin DOMAIN dirs /\ WriteFile(q, f)

NextLocate ==
  \/ \E q \in DOMAIN dirs, n \in LocDirNames : mkdirSync(q, n)
  \/ \E q \in DOMAIN dirs, f \in LocFileNames : writeFileSync(q, f)
  \/ FindVenv

SpecLocate == InitLocate /\ [][NextLocate]_vars

(***************************************************************************)
(* getProjectForFile (discovery/venv.ts): a function of three strings, run  *)
(* on every file path, workspace root and list of names of the model.       *)
(***************************************************************************)
MaxNames == 2

\* String.length of a token and of a text
charCount(t) ==
  CASE t = "mcp" -> 3
    [] t = "main" -> 4
    [] t = "py" -> 2
    [] t = ".." -> 2
    [] OTHER -> 1

RECURSIVE strLen(_)
strLen(text) == IF text = <<>> THEN 0 ELSE charCount(Head(text)) + strLen(Tail(text))

\* how many leading names two paths share
RECURSIVE commonLen(_, _)
commonLen(x, y) ==
  IF x = <<>> \/ y = <<>> \/ Head(x) # Head(y) THEN 0
  ELSE 1 + commonLen(Tail(x), Tail(y))

\* names joined with "/", no leading separator
RECURSIVE joinNames(_)
joinNames(q) ==
  IF q = <<>> THEN <<>>
  ELSE IF Len(q) = 1 THEN q[1]
  ELSE q[1] \o <<"/">> \o joinNames(Tail(q))

\* path.relative(from, to): ".." for each name of from that to does not share
relative(from, to) ==
  LET k == commonLen(from, to) IN
  joinNames([i \in 1..(Len(from) - k) |-> <<"..">>] \o SubSeq(to, k + 1, Len(to)))

\* [...names].sort((a, b) => b.length - a.length): stable, longest first
RECURSIVE insertByLength(_, _)
insertByLength(sorted, x) ==
  IF sorted = <<>> THEN <<x>>
  ELSE IF strLen(Head(sorted)) >= strLen(x)
  THEN <<Head(sorted)>> \o insertByLength(Tail(sorted), x)
  ELSE <<x>> \o sorted

RECURSIVE sortLongestFirst(_)
sortLongestFirst(names) ==
  IF names = <<>> THEN <<>>
  ELSE insertByLength(sortLongestFirst(SubSeq(names, 1, Len(names) - 1)), names[Len(names)])

RECURSIVE firstPrefix_NoSeparator(_, _)
firstPrefix_NoSeparator(sorted, rel) ==
  IF sorted = <<>> THEN None
  ELSE IF startsWith(rel, Head(sorted)) THEN Some(Head(sorted))
  ELSE firstPrefix_NoSeparator(Tail(sorted), rel)

RECURSIVE firstPrefix(_, _)
firstPrefix(sorted, rel) ==
  IF sorted = <<>> THEN None
  ELSE IF startsWith(rel, Head(sorted) \o <<"/">>) THEN Some(Head(sorted))
  ELSE firstPrefix(Tail(sorted), rel)

getProjectForFile(filePath, workspaceRoot, subprojectNames) ==
  firstPrefix(sortLongestFirst(subprojectNames), relative(workspaceRoot, filePath))

OwnerPaths == seqsUpTo({MCP, MCP2, MAIN_PY}, MaxDepth)
OwnerRoots == {<<>>, <<MCP>>}
SubprojectNames == {joinNames(q) : q \in seqsUpTo({MCP, MCP2}, 2) \ {<<>>}}

ProjectForFile ==
  /\ owned = None
  /\ \E filePath \in OwnerPaths, workspaceRoot \in OwnerRoots,
        subprojectNames \in seqsUpTo(SubprojectNames, MaxNames) :
       owned' = Some([filePath |-> filePath, workspaceRoot |-> workspaceRoot,
                      subprojectNames |-> subprojectNames,
                      result |-> getProjectForFile(filePath, workspaceRoot, subprojectNames)])
  /\ UNCHANGED <<lifeVars, dirs, patterns, phase, results, lastDetected, resolved, located, watch>>

NextOwner == ProjectForFile

SpecOwner == InitWorkspace /\ [][NextOwner]_vars

(***************************************************************************)
(* The requirements watcher (watchers/requirementsWatcher.ts): change and   *)
(* create events for requirements*.txt and pyproject.toml in the project    *)
(* directory, while its manifests are edited and its venv deleted.          *)
(***************************************************************************)
\* bound: events the watcher handles
MaxEvents == 2

\* files of the project that match **/{requirements*.txt,pyproject.toml}
WatchedFiles == ManifestNames \cup {PYPROJECT_TOML}

watchRest == <<lifeVars, dirs, patterns, phase, results, lastDetected, resolved, located, owned>>

\* the handler without the staleness test of line 38
handleChange_IgnoresStale(uri) ==
  /\ watch.events < MaxEvents
  /\ LET reqFile_ == findRequirementsFile(Present)
         notify == isVenvValid /\ reqFile_ # None
     IN watch' = [watch EXCEPT !.events = @ + 1,
                               !.open = IF notify THEN @ + 1 ELSE @]
  /\ UNCHANGED watchRest

\* onDidChange / onDidCreate for the file uri: the project directory is its dirname
handleChange(uri) ==
  /\ watch.events < MaxEvents
  /\ LET reqFile_ == findRequirementsFile(Present)
         notify == /\ isVenvValid
                   /\ reqFile_ # None
                   /\ isVenvStale(marker, fileOf(reqFile_)).val
     IN watch' = [watch EXCEPT !.events = @ + 1,
                               !.open = IF notify THEN @ + 1 ELSE @]
  /\ UNCHANGED watchRest

\* the user presses Update: executeCommand('pyToolkit.createVenv')
Update ==
  /\ watch.open > 0
  /\ watch' = [watch EXCEPT !.open = @ - 1, !.triggered = @ + 1]
  /\ UNCHANGED watchRest

\* the user presses Dismiss or closes the notification
Dismiss ==
  /\ watch.open > 0
  /\ watch' = [watch EXCEPT !.open = @ - 1]
  /\ UNCHANGED watchRest

NextWatch ==
  \/ \E uri \in WatchedFiles : handleChange(uri)
  \/ Update
  \/ Dismiss
  \/ \E m \in ManifestNames, k \in Contents : WriteManifest(m, k)
  \/ \E m \in ManifestNames : RemoveManifest(m)
  \/ deleteVenv

InitWatch == InitFs /\ InitCalls /\ InitHost /\ overlap = FALSE

SpecWatch == InitWatch /\ [][NextWatch]_vars

(***************************************************************************)
(* Claims about ensure (createOrUpdateVenv) and the hash store.             *)
(***************************************************************************)
\* isStale of the venv against the manifest rf, as the code computes it now
StaleFor(rf) == isVenvStale(marker, fileOf(rf))

\* a step in which call c starts / completes with a result / fails at the install
Starts(c) == pc[c] = "idle" /\ pc'[c] # "idle"
Completes(c) == pc[c] # "done" /\ pc'[c] = "done"
InstallFails(c) == pc[c] = "installing" /\ pc'[c] = "failed" /\ failedAt'[c] = "install"

\* C1: a call on a valid venv, not forced, with a resolved manifest whose digest
\* is the stored one returns created=false, updated=false, and between its start
\* and its return spawns no process at all (not even the uv probe) and changes
\* nothing on the filesystem.
C1_NoOpSpawnsNothing ==
  [][\A c \in Calls :
       (/\ Starts(c)
        /\ isVenvValid
        /\ ~force'[c]
        /\ fileOf(reqFile'[c]) # None
        /\ readStoredHash(marker) = Some(md5hex(The(fileOf(reqFile'[c])))))
       => (/\ pc'[c] = "done"
           /\ ~result'[c].created /\ ~result'[c].updated
           /\ cmds'[c] = {}
           /\ fsVars' = fsVars)]_vars

\* C2: a step of ensure changes the stored hash only when it is the step that
\* follows the install command's successful exit, and then the marker holds the
\* digest of the installed manifest; every other step of ensure leaves it as it was.
C2_HashWrittenOnlyAfterInstall ==
  [][(pc' # pc /\ marker' # marker)
       => \E c \in Calls :
            /\ pc[c] = "installing" /\ pc'[c] = "done"
            /\ "install" \in cmds[c]
            /\ fileOf(reqFile[c]) # None
            /\ marker' = writeHash(md5hex(The(fileOf(reqFile[c]))))]_vars

C2_Witness ==
  \E c \in Calls :
    /\ pc[c] = "done" /\ "install" \in cmds[c]
    /\ fileOf(reqFile[c]) # None
    /\ hashed = fileOf(reqFile[c])
    /\ marker = writeHash(md5hex(The(hashed)))

\* C3 as stated: after every failed install of a manifest (that still exists),
\* whatever the starting state and force, the venv is stale against the manifest
\* that was being installed and the next non-forced ensure does not take the
\* no-op path.
C3_FailedInstallAlwaysStale ==
  [][\A c \in Calls :
       (InstallFails(c) /\ fileOf(reqFile[c]) # None)
       => (/\ StaleFor(reqFile[c])' = Ret(TRUE)
           /\ upToDate(FALSE, reqFile[c])' # "noop")]_vars

\* C3 amended: the step in which the install fails writes no hash and changes
\* no file, so a venv that was stale against the manifest being installed is
\* still stale after the failure, and a non-forced ensure on that manifest then
\* does not take the no-op path.
C3_FailedInstallKeepsHash ==
  [][\A c \in Calls :
       InstallFails(c)
       => (/\ marker' = marker /\ reqs' = reqs
           /\ StaleFor(reqFile[c]) = Ret(TRUE)
                => (/\ StaleFor(reqFile[c])' = Ret(TRUE)
                    /\ upToDate(FALSE, reqFile[c])' # "noop"))]_vars

C3_Witness ==
  \E c \in Calls :
    /\ pc[c] = "failed" /\ failedAt[c] = "install"
    /\ ~force[c] /\ exists[c]
    /\ StaleFor(reqFile[c]) = Ret(TRUE)
    /\ upToDate(FALSE, reqFile[c]) = "act"

\* C4: a call that found no valid venv and installs a manifest returns
\* created=true (updated=false), leaves a venv that validates, and the stored
\* hash read back is the digest of the manifest; a non-forced call on a valid
\* venv that installs (the manifest changed) returns updated=true,
\* created=false, and the stored hash is the digest of the new content.
C4_CreateThenUpdate ==
  [][\A c \in Calls :
       (Completes(c) /\ pc[c] = "installing")
       => (/\ fileOf(reqFile[c])' # None
           /\ readStoredHash(marker') = Some(md5hex(The(fileOf(reqFile[c])')))
           /\ isVenvValid'
           /\ ~exists[c] => (result'[c].created /\ ~result'[c].updated
                             /\ "create" \in cmds[c])
           /\ exists[c] => (result'[c].updated /\ ~result'[c].created
                            /\ "create" \notin cmds[c]))]_vars

\* the update half: a non-forced call found a valid, stale venv and has installed
C4_Witness ==
  \E c \in Calls :
    /\ pc[c] = "done" /\ ~force[c] /\ exists[c]
    /\ reqFile[c] = Some(REQUIREMENTS_TXT)
    /\ result[c].updated /\ ~result[c].created
    /\ cmds[c] \ {"probe"} = {"install"}
    /\ readStoredHash(marker) = Some(md5hex(The(reqs[REQUIREMENTS_TXT])))

\* the following call: same arguments, force false, on the state the step leaves
FollowingCall(c) == upToDate(FALSE, resolveReqFile(override[c]))

\* C5 as stated: after any successful non-forced call, for every project, the
\* next call with the same arguments takes the no-op path.
C5_Idempotent ==
  [][\A c \in Calls :
       (Completes(c) /\ ~force'[c]) => FollowingCall(c)' = "noop"]_vars

\* C5 amended: after a successful non-forced call that resolved a requirements
\* manifest, the next call with the same arguments that resolves the same
\* manifest takes the no-op path; and a call that takes the no-op path returns
\* created=false, updated=false at once, has run no creation, install or sync
\* command, and changes no file.
C5_IdempotentWithManifest ==
  [][\A c \in Calls :
       /\ (/\ Completes(c) /\ ~force'[c]
           /\ reqFile'[c] # None
           /\ resolveReqFile(override[c])' = reqFile'[c])
          => FollowingCall(c)' = "noop"
       /\ (Starts(c) /\ upToDate(force'[c], reqFile'[c]) = "noop")
          => (/\ pc'[c] = "done"
              /\ ~result'[c].created /\ ~result'[c].updated
              /\ cmds'[c] \subseteq {"probe"}
              /\ fsVars' = fsVars)]_vars

\* a call has installed and returned, and the call that would follow is a no-op
C5_Witness ==
  \E c \in Calls :
    /\ pc[c] = "done" /\ ~force[c] /\ "install" \in cmds[c]
    /\ resolveReqFile(override[c]) = reqFile[c]
    /\ FollowingCall(c) = "noop"

\* C6: against every manifest that exists, isStale is true when the venv has no
\* stored hash, and otherwise true exactly when the manifest's content is not
\* the content whose digest was written last: false right after
\* writeHash(hash(manifest)), false until the content changes, true from then on.
C6_StaleIffContentDiffers ==
  \A m \in ManifestNames :
    reqs[m] # None
    => /\ (marker = None) = (hashed = None)
       /\ isVenvStale(marker, reqs[m]) = Ret(hashed = None \/ hashed # reqs[m])

\* the hash of the installed manifest was written, then the manifest was edited
C6_Witness ==
  \E c \in Calls :
    /\ pc[c] = "done" /\ "install" \in cmds[c]
    /\ marker # None /\ fileOf(reqFile[c]) # None
    /\ hashed # fileOf(reqFile[c])
    /\ StaleFor(reqFile[c]) = Ret(TRUE)

\* the creation, install and sync commands call c has started so far
Started(c) == cmds[c] \ {"probe"}
InFlight(c) == pc[c] \in {"creating", "installing", "syncing"}

\* C17: when a command of ensure exits with a non-zero status or cannot be
\* spawned, the call fails towards its caller and runs nothing further: the
\* call goes on past the venv creation only when creation produced the venv,
\* the failing step starts no command and writes no hash, no result is
\* returned, and the failed call starts no command and writes no hash later.
C17_FailureAborts ==
  [][\A c \in Calls :
       /\ (pc[c] = "creating" /\ pc'[c] \in {"installing", "syncing", "done"})
          => isVenvValid'
       /\ (InFlight(c) /\ pc'[c] = "failed")
          => (/\ failedAt'[c] \in {"create", "install", "sync", "hash"}
              /\ cmds'[c] = cmds[c]
              /\ marker' = marker
              /\ ~result'[c].returned)
       /\ pc[c] = "failed"
          => (/\ pc'[c] \in {"failed", "idle"}
              /\ pc'[c] = "failed" => cmds'[c] = cmds[c]
              /\ marker' \in {marker, None}
              /\ ~result'[c].returned)]_vars

\* the creation command failed in a call that had a manifest to install
C17_Witness ==
  \E c \in Calls :
    /\ pc[c] = "failed" /\ failedAt[c] = "create"
    /\ fileOf(reqFile[c]) # None
    /\ Started(c) = {"create"}
    /\ ~isVenvValid /\ marker = None

\* C19: within one ensure call at most one external command runs at a time: a
\* step starts at most one command and only when none of the call is running
\* (the call is starting, or its creation command exits in that step with the
\* venv made), the install or sync command of a call that created the venv is
\* started in the step in which creation succeeds, and the result is returned
\* in a step that leaves no command of the call running.
C19_OneCommandAtATime ==
  [][\A c \in Calls :
       LET new == Started(c)' \ Started(c) IN
       /\ Cardinality(new) <= 1
       /\ new # {} => pc[c] \in {"idle", "creating"}
       /\ (new # {} /\ pc[c] = "idle") => Started(c)' = new
       /\ (new # {} /\ pc[c] = "creating")
          => (/\ Started(c) = {"create"}
              /\ new \subseteq {"install", "sync"}
              /\ isVenvValid')
       /\ new = {"create"} => pc'[c] = "creating"
       /\ new = {"install"} => pc'[c] = "installing"
       /\ new = {"sync"} => pc'[c] = "syncing"
       /\ result'[c].returned => ~InFlight(c)']_vars

\* creation has exited and the install it was followed by is running
C19_Witness ==
  \E c \in Calls :
    /\ pc[c] = "installing"
    /\ Started(c) = {"create", "install"}
    /\ isVenvValid

\* C20: a call that completes off the no-op path returns created = the venv
\* was not valid when the call started, updated = it was valid; the two are
\* never both true, and both false only on the no-op path.
C20_CreatedXorUpdated ==
  [][\A c \in Calls :
       /\ Starts(c) => exists'[c] = isVenvValid
       /\ (pc[c] # "idle" /\ pc'[c] # "idle") => exists'[c] = exists[c]
       /\ Completes(c)
          => (/\ IF pc[c] = "idle" /\ upToDate(force'[c], reqFile'[c]) = "noop"
                 THEN ~result'[c].created /\ ~result'[c].updated
                 ELSE /\ result'[c].created = ~exists'[c]
                      /\ result'[c].updated = exists'[c]
              /\ ~(result'[c].created /\ result'[c].updated))]_vars

\* uv sync has run on a venv that was valid: updated, not created
C20_Witness ==
  \E c \in Calls :
    /\ pc[c] = "done" /\ Started(c) = {"sync"}
    /\ exists[c]
    /\ result[c].updated /\ ~result[c].created

\* C18: nothing serialises overlapping ensure calls on one project: while a
\* call has a command in flight another call can start, both can have their
\* install in flight in the same venv, and each of them, whatever the other
\* does, can then write the stored hash.
C18_NoMutualExclusion ==
  \A c, d \in Calls :
    c # d
    => /\ (InFlight(c) /\ pc[d] = "idle" /\ \A x \in Calls : x < d => pc[x] # "idle")
          => ENABLED EnsureStart(d)
       /\ (pc[c] = "installing" /\ venvDir /\ fileOf(reqFile[c]) # None)
          => ENABLED (InstallOk(c) /\ marker' = writeHash(md5hex(The(fileOf(reqFile[c])))))

\* both calls have their install of the same manifest in flight in the same venv
C18_Witness ==
  /\ pc[1] = "installing" /\ pc[2] = "installing"
  /\ reqFile[1] = reqFile[2] /\ fileOf(reqFile[1]) # None
  /\ venvDir

(***************************************************************************)
(* Claims about discoverSubprojects.                                        *)
(***************************************************************************)
Discovered == {results[i] : i \in 1..Len(results)}
DiscoveredPaths == {r.absolutePath : r \in Discovered}

\* q lies strictly below p
below(q, p) == Len(p) < Len(q) /\ SubSeq(q, 1, Len(p)) = p

\* the directories from the root down to q, q included
upTo(q) == {SubSeq(q, 1, k) : k \in 0..Len(q)}

\* C7: no returned sub-project lies below another returned sub-project.
C7_NonOverlap ==
  phase = "discovered"
  => \A r1, r2 \in Discovered : ~below(r1.absolutePath, r2.absolutePath)

\* a project was returned although a directory below it holds a manifest of its own
C7_Witness ==
  /\ phase = "discovered"
  /\ \E r \in Discovered, q \in DOMAIN dirs :
       /\ below(q, r.absolutePath)
       /\ ~shouldSkip(q[Len(q)])
       /\ isProjectDir(q) # <<>>

\* q is a candidate: strictly below the root, no name on its path skipped, no
\* returned sub-project above it (every directory on the path being readable)
Candidate(q) ==
  /\ q # Root
  /\ \A k \in 1..Len(q) : ~shouldSkip(q[k])
  /\ \A d \in upTo(q) : dirs[d].perm = "rx"
  /\ \A r \in Discovered : ~below(q, r.absolutePath)

\* C8: every candidate directory that directly contains a requirements manifest
\* (requirements.txt, requirements-dev.txt, requirements-cpu.txt, any
\* requirements*.txt), i.e. one for which findRequirementsFile or
\* findAllRequirementsFiles finds a manifest, is returned by discover.
C8_ManifestDirIsProject ==
  phase = "discovered"
  => \A q \in DOMAIN dirs :
       (/\ Candidate(q)
        /\ \/ findRequirementsFile(dirs[q].files) # None
           \/ findAllRequirementsFiles(q) # <<>>)
       => q \in DiscoveredPaths

present3(ms, m) == \E i \in 1..Len(ms) : ms[i] = m

\* C9: the markers of a returned sub-project are a non-empty sublist of
\* requirements.txt, pyproject.toml, py-files in that order; requirements.txt
\* iff the directory directly contains requirements.txt, pyproject.toml iff it
\* directly contains pyproject.toml, py-files iff it contains neither and some
\* .py file lies directly in it.
C9_Markers ==
  phase = "discovered"
  => \A r \in Discovered :
       LET d == r.absolutePath
           hasReq == REQUIREMENTS_TXT \in dirs[d].files
           hasToml == PYPROJECT_TOML \in dirs[d].files
           hasPy == \E f \in dirs[d].files : endsWith(f, <<".", "py">>)
       IN /\ r.markers # <<>>
          /\ r.markers \in { <<"requirements.txt">>, <<"pyproject.toml">>, <<"py-files">>,
                             <<"requirements.txt", "pyproject.toml">> }
          /\ present3(r.markers, "requirements.txt") <=> hasReq
          /\ present3(r.markers, "pyproject.toml") <=> hasToml
          /\ present3(r.markers, "py-files") <=> (~hasReq /\ ~hasToml /\ hasPy)

\* both manifests and a .py file in one directory: two markers, in order, no py-files
C9_Witness ==
  /\ phase = "discovered"
  /\ \E r \in Discovered :
       /\ r.markers = <<"requirements.txt", "pyproject.toml">>
       /\ MAIN_PY \in dirs[r.absolutePath].files

\* C21: discover never returns the workspace root itself, whatever the root
\* holds, and every returned sub-project has a non-empty name.
C21_RootNeverReturned ==
  phase = "discovered"
  => \A r \in Discovered : r.absolutePath # Root /\ r.name # <<>>

\* the root holds a manifest or a .py file of its own, and something was returned
C21_Witness ==
  /\ phase = "discovered"
  /\ isProjectDir(Root) # <<>>
  /\ results # <<>>

\* a directory name is excluded for one of the three reasons: a leading dot,
\* the always-skipped set, a configured pattern (stars removed) inside the name
Excluded(name) ==
  \/ name[1] = "."
  \/ name \in ALWAYS_SKIP
  \/ \E i \in 1..Len(patterns) : includes(name, stripStars(patterns[i]))

\* C22: a directory is excluded from traversal and from the results iff its
\* name starts with '.', is in the always-skipped set, or contains a configured
\* exclude pattern with every '*' removed: no returned sub-project has an
\* excluded name on its path, and a directory with no excluded name on its
\* path is returned when it is a project that the scan reaches.
C22_ExclusionRule ==
  phase = "discovered"
  => /\ \A r \in Discovered :
          \A k \in 1..Len(r.absolutePath) : ~Excluded(r.absolutePath[k])
     /\ \A q \in DOMAIN dirs :
          (/\ q # Root
           /\ \A k \in 1..Len(q) : ~Excluded(q[k])
           /\ \A d \in upTo(q) : dirs[d].perm = "rx"
           /\ \A d \in upTo(parentOf(q)) \ {Root} : isProjectDir(d) = <<>>
           /\ isProjectDir(q) # <<>>)
          => q \in DiscoveredPaths

\* a.venv holds requirements.txt: left out under the default patterns (*.venv),
\* returned when no pattern is configured; tools is left out in any case
C22_Witness ==
  /\ phase = "discovered"
  /\ <<A_VENV>> \in DOMAIN dirs
  /\ REQUIREMENTS_TXT \in dirs[<<A_VENV>>].files
  /\ \/ patterns = excludePatterns /\ <<A_VENV>> \notin DiscoveredPaths
     \/ /\ patterns = <<>> /\ <<A_VENV>> \in DiscoveredPaths
        /\ <<TOOLS>> \in DOMAIN dirs /\ MAIN_PY \in dirs[<<TOOLS>>].files
        /\ <<TOOLS>> \notin DiscoveredPaths

\* C23: when directories cannot be read, discover raises nothing and returns
\* exactly the sub-projects it would return if each of them were empty: the
\* readable, non-excluded project directories reached through readable ones.
C23_UnreadableAsEmpty ==
  phase = "discovered"
  => DiscoveredPaths =
       {q \in DOMAIN dirs \ {Root} :
          /\ \A k \in 1..Len(q) : ~shouldSkip(q[k])
          /\ \A d \in upTo(q) : dirs[d].perm = "rx"
          /\ \A d \in upTo(parentOf(q)) \ {Root} : isProjectDir(d) = <<>>
          /\ isProjectDir(q) # <<>>}

venvStatus ==
  LET reqFile_ == findRequirementsFile(Present) IN
  IF reqFile_ # None /\ isVenvStale(marker, fileOf(reqFile_)).val THEN "stale" ELSE "ok"

\* a step in which call c's install command exits and the call returns its result
InstallCompletes(c) == pc[c] = "installing" /\ pc'[c] = "done"

\* C26: after a successful ensure that installed from manifest M (the primary
\* manifest or an override), every staleness consumer evaluates the venv as not
\* stale, and a later ensure without override takes the no-op path, also when
\* M is not the primary manifest.
C26_FreshForEveryConsumer ==
  [][\A c \in Calls :
       InstallCompletes(c)
       => /\ venvStatus' = "ok"
          /\ upToDate(FALSE, findRequirementsFile(Present))' = "noop"]_vars

\* C27: whenever ensure writes a stored hash, it is the digest of the manifest
\* content the install command that just completed was started on, also when
\* the manifest was modified while the command ran.
C27_HashOfInstalledContent ==
  [][\A c \in Calls :
       (InstallCompletes(c) /\ consumed[c] # None)
       => readStoredHash(marker') = Some(md5hex(The(consumed[c])))]_vars

\* C28 as stated: a call that returns updated=true has executed an install or
\* a sync command.
C28_UpdatedMeansCommandRan ==
  [][\A c \in Calls :
       (Completes(c) /\ result'[c].updated)
       => cmds'[c] \cap {"install", "sync"} # {}]_vars

\* C28 amended: a call that returns updated=true has executed an install
\* command when a manifest was resolved, a sync command when none was resolved
\* and the resolved manager is uv with a pyproject.toml in the project, and no
\* install, sync or creation command in the remaining case.
C28_UpdatedCommandOrNoTarget ==
  [][\A c \in Calls :
       (Completes(c) /\ result'[c].updated)
       => /\ reqFile'[c] # None => "install" \in cmds'[c]
          /\ (reqFile'[c] = None /\ manager'[c] = "uv" /\ pyproject # None)
             => "sync" \in cmds'[c]
          /\ (reqFile'[c] = None /\ ~(manager'[c] = "uv" /\ pyproject # None))
             => cmds'[c] \cap {"create", "install", "sync"} = {}]_vars

\* a call has returned updated=true having run no command: the venv was valid,
\* the project has no manifest and is not a uv project with a pyproject.toml
C28_Witness ==
  \E c \in Calls :
    /\ pc[c] = "done"
    /\ result[c].updated
    /\ reqFile[c] = None
    /\ cmds[c] \cap {"create", "install", "sync"} = {}

(***************************************************************************)
(* Claims about the requirements watcher.                                   *)
(***************************************************************************)
\* the project's venv is valid, the project has a primary manifest, and the
\* stored hash is missing or is not the digest of that manifest
ShouldNotify ==
  /\ venvPython
  /\ \E m \in Present :
       /\ (REQUIREMENTS_TXT \in Present => m = REQUIREMENTS_TXT)
       /\ (marker = None \/ trim(The(marker)) # md5hex(The(reqs[m])))

HasToolUv == pyproject # None /\ includes(The(pyproject), TOOL_UV)
HasProjectDeps ==
  /\ pyproject # None
  /\ includes(The(pyproject), PROJECT)
  /\ includes(The(pyproject), DEPENDENCIES)
HasRequirementsTxt == reqs[REQUIREMENTS_TXT] # None

\* C10: detect answers by the first rule that matches: uv.lock -> uv;
\* pyproject.toml with [tool.uv] -> uv; the [project] dependencies rule -> uv;
\* requirements.txt -> venv+pip; else the first configured preference, venv+pip
\* when there is none.  uv.lock with requirements.txt gives uv; a pyproject.toml
\* without uv marker with requirements.txt gives venv+pip.
C10_DetectOrder ==
  lastDetected # None
  => LET d == The(lastDetected) IN
     /\ uvLock => d = "uv"
     /\ (~uvLock /\ HasToolUv) => d = "uv"
     /\ (~uvLock /\ ~HasToolUv /\ HasProjectDeps) => d = "uv"
     /\ (~uvLock /\ ~HasToolUv /\ ~HasProjectDeps /\ HasRequirementsTxt) => d = "venv+pip"
     /\ (~uvLock /\ ~HasToolUv /\ ~HasProjectDeps /\ ~HasRequirementsTxt)
        => d = (IF prefs = <<>> THEN "venv+pip" ELSE Head(prefs))
     /\ (uvLock /\ HasRequirementsTxt) => d = "uv"
     /\ (pyproject # None /\ ~uvLock /\ ~HasToolUv /\ ~HasProjectDeps /\ HasRequirementsTxt)
        => d = "venv+pip"

\* uv.lock beside requirements.txt, with a preference list that starts with venv+pip
C10_Witness ==
  /\ lastDetected = Some("uv")
  /\ uvLock /\ HasRequirementsTxt /\ ~HasToolUv /\ ~HasProjectDeps
  /\ prefs # <<>> /\ Head(prefs) = "venv+pip"

\* the lines of a text, without their line ends
RECURSIVE linesOf(_, _)
linesOf(text, line) ==
  IF text = <<>> THEN (IF line = <<>> THEN <<>> ELSE <<line>>)
  ELSE IF Head(text) = "\n" THEN <<line>> \o linesOf(Tail(text), <<>>)
  ELSE linesOf(Tail(text), line \o <<Head(text)>>)

\* the text has a [project] table and a key `dependencies = [` stands in it: on
\* a line of its own start, after the [project] header and before the next header
DepsInProjectTable(text) ==
  LET ls == linesOf(text, <<>>) IN
  \E i, j \in 1..Len(ls) :
    /\ i < j
    /\ ls[i] = PROJECT
    /\ startsWith(ls[j], DEPENDENCIES)
    /\ \A k \in (i + 1)..j : ~startsWith(ls[k], <<"[">>)

HasProjectTable == pyproject # None /\ includes(The(pyproject), PROJECT)

\* C11: when rules 1 and 2 do not apply, detect answers uv by rule 3 only if
\* pyproject.toml has a [project] table and `dependencies = [` occurs inside that
\* table; with a [project] table whose only `dependencies = [` lies in another
\* table or is the tail of a longer key, the answer is that of rules 4 and 5.
C11_DepsInsideProjectTable ==
  (lastDetected # None /\ ~uvLock /\ ~HasToolUv /\ HasProjectTable)
  => IF DepsInProjectTable(The(pyproject))
     THEN lastDetected = Some("uv")
     ELSE lastDetected = Some(IF HasRequirementsTxt THEN "venv+pip"
                              ELSE IF prefs = <<>> THEN "venv+pip" ELSE Head(prefs))

(***************************************************************************)
(* Claims about resolvePackageManager.                                      *)
(***************************************************************************)
\* C12: every resolve call returns venv+pip when detect returns uv and uv could
\* not be run at the time of that call, and detect's result otherwise; each
\* call of a sequence answers by the availability at its own time, and every
\* call returns a manager (the failed probe is not raised).
C12_ResolveDowngradesFresh ==
  \A i \in 1..Len(resolved) :
    LET r == resolved[i] IN
    /\ r.detected = detectPackageManager(uvLock, pyproject, Present, prefs)
    /\ r.manager = (IF r.detected = "uv" /\ ~r.available THEN "venv+pip" ELSE r.detected)
    /\ r.manager \in {"uv", "venv+pip", "poetry"}

\* uv was there for the first call, gone for the second, back for the third
C12_Witness ==
  /\ Len(resolved) = 3
  /\ resolved[1].detected = "uv"
  /\ resolved[1].manager = "uv" /\ resolved[1].available
  /\ resolved[2].manager = "venv+pip" /\ ~resolved[2].available
  /\ resolved[3].manager = "uv" /\ resolved[3].available

\* C29: detect and resolve return uv or venv+pip for every filesystem state
\* and every configured preference list, lists whose first entry is another
\* string included.
C29_ManagerIsUvOrPip ==
  \A i \in 1..Len(resolved) :
    /\ resolved[i].detected \in {"uv", "venv+pip"}
    /\ resolved[i].manager \in {"uv", "venv+pip"}

(***************************************************************************)
(* Claims about findVenvForFile.                                            *)
(***************************************************************************)
\* q is p or lies below p, compared name by name
inside(q, p) == q = p \/ below(q, p)

\* the directory the walk starts from: the path itself when it is a directory
startDir(filePath) ==
  IF statSync(filePath) = Ret("dir") THEN filePath ELSE dirname(filePath)

\* C13: a venv returned by findVenv is D/.venv for a directory D that is the
\* workspace root or lies in its subtree (compared by path components), and for
\* a file (that exists) whose path is not inside the workspace root's subtree
\* the result is absent.
C13_VenvInsideWorkspace ==
  \A l \in located :
    l.result.ok
    => /\ \A v \in l.result.val :
            /\ v # <<>> /\ v[Len(v)] = VENV
            /\ inside(parentOf(v), l.workspaceRoot)
       /\ ~inside(l.filePath, l.workspaceRoot) => l.result.val = None

\* the directories A the claim lets findVenv answer with
venvHolders(filePath, workspaceRoot) ==
  {a \in upTo(startDir(filePath)) :
     inside(a, workspaceRoot) /\ statSync(a \o <<VENV>>) = Ret("dir")}

\* C14: for a file or directory that exists inside the workspace, findVenv
\* returns A/.venv for the nearest A, among the containing directory (the path
\* itself when it is a directory) and its ancestors up to and including the
\* workspace root, whose .venv exists and is a directory; absent when there is
\* none; a .venv that is not a directory is passed over.
C14_NearestVenv ==
  \A l \in located :
    (statSync(l.filePath).ok /\ inside(l.filePath, l.workspaceRoot))
    => LET holders == venvHolders(l.filePath, l.workspaceRoot) IN
       /\ l.result.ok
       /\ holders = {} => l.result.val = None
       /\ holders # {}
          => \E a \in holders :
               /\ \A b \in holders : Len(b) <= Len(a)
               /\ l.result.val = Some(a \o <<VENV>>)

\* the nearest .venv is a plain file and is passed over for one further up
C14_Witness ==
  \E l \in located :
    /\ inside(l.filePath, l.workspaceRoot)
    /\ statSync(startDir(l.filePath) \o <<VENV>>) = Ret("file")
    /\ l.result.ok /\ l.result.val # None
    /\ Len(The(l.result.val)) <= Len(startDir(l.filePath))

(***************************************************************************)
(* Claims about getProjectForFile.                                          *)
(***************************************************************************)
\* the names that, followed by a separator, start the file's relative path
prefixNames(o) ==
  {o.subprojectNames[i] : i \in 1..Len(o.subprojectNames)}
  \cap {n \in SubprojectNames :
          startsWith(relative(o.workspaceRoot, o.filePath), n \o <<"/">>)}

\* C15: projectForFile returns the longest of the given names that, followed
\* by a path separator, is a prefix of the file's path relative to the root,
\* and absent when there is none; a name that only shares a string prefix with
\* a path segment, or that is the whole relative path, does not match.
C15_LongestPrefix ==
  \A o \in owned :
    /\ prefixNames(o) = {} => o.result = None
    /\ prefixNames(o) # {}
       => \E n \in prefixNames(o) :
            /\ \A m \in prefixNames(o) : strLen(m) <= strLen(n)
            /\ o.result = Some(n)
    /\ \A n \in o.result :
         /\ n # relative(o.workspaceRoot, o.filePath)
         /\ \E k \in 1..Len(o.filePath) :
              n = joinNames(SubSeq(o.filePath, Len(o.workspaceRoot) + 1, k))

\* mcp/mcp2/main.py with the names mcp and mcp/mcp2, the shorter one given first
C15_Witness ==
  \E o \in owned :
    /\ o.workspaceRoot = <<>>
    /\ o.filePath = <<MCP, MCP2, MAIN_PY>>
    /\ o.subprojectNames = <<MCP, joinNames(<<MCP, MCP2>>)>>
    /\ o.result = Some(joinNames(<<MCP, MCP2>>))

(***************************************************************************)
(* Claims about missing filesystem objects.                                 *)
(***************************************************************************)
\* paths at which nothing exists
MissingPaths == {q \in QueryPaths : ~statSync(q).ok}

\* C16: the lowest-layer lookups answer absent or empty for a missing object
\* and never raise: discover on a workspace root that does not exist returns
\* the empty sequence, findVenv on a file path that does not exist returns
\* absent, readStoredHash on a venv without marker file returns absent, and
\* isStale on a venv with a stored hash whose manifest is gone returns a boolean.
C16_MissingObjectsNeverRaise ==
  /\ \A w \in MissingPaths : sortByName(scan(w)) = <<>>
  /\ \A l \in located : l.filePath \in MissingPaths => l.result = Ret(None)
  /\ marker = None => readStoredHash(marker) = None
  /\ \A m \in ManifestNames :
       (marker # None /\ reqs[m] = None)
       => LET stale == isVenvStale(marker, reqs[m]) IN stale.ok /\ stale.val \in BOOLEAN

\* C30: for a file inside a discovered sub-project P of the workspace,
\* findVenv(file, root) returns absent or P/.venv, the venv that ensure
\* creates for P and that the tree view and the validator look at.
C30_VenvOfOwnProject ==
  \A l \in located :
    (l.workspaceRoot = Root /\ statSync(l.filePath) = Ret("file"))
    => \A r \in scan(Root) :
         inside(l.filePath, r.absolutePath)
         => /\ l.result.ok
            /\ l.result.val \in {None, Some(r.absolutePath \o <<VENV>>)}

====
